---- MODULE Spec2Model ----
(***************************************************************************)
(* Model of the generation pipeline of the Sora Director application:      *)
(* the /api/generate handler (src/src/main.py), the video generator it     *)
(* drives (src/src/sora_handler.py), the shared progress map, the cache    *)
(* directory and the generated take files.  Each request thread runs the   *)
(* handler step by step; Flask's development server serves every request   *)
(* on a thread of its own, so steps of different requests interleave.      *)
(***************************************************************************)
EXTENDS Integers, Sequences, FiniteSets, TLC

VARIABLES
    config,               \* Config.USE_MOCK and whether Config.SORA_API_KEY is set
    generation_progress,  \* main.py: the process-wide dict prompt_hash -> state
    cache,                \* DATA_ROOT/cache/<hash>.json: file name -> content
    gendirs,              \* GENERATIONS_DIR/<hash>/ with its metadata.txt
    videos,               \* GENERATIONS_DIR/<hash>/take_<i>.mp4: path -> file
    pc,                   \* position of each request thread in generate_videos
    req,                  \* the request a thread is serving (after parsing)
    loc,                  \* locals of generate_videos / generate_n_takes
    resp,                 \* the last response a thread returned
    hist,                 \* history of the run a thread is executing
    progressResp,         \* the last answer of /api/progress/<hash>
    rng,                  \* state of Python's process-wide random generator
    pyhash,               \* hash(str(path)) of this process, path -> integer
    call,                 \* the library call in hand: operation, input, result
    memo                  \* first result of each scorer or detector call

\* the state of the scoring, detection and revision library calls
libvars == <<rng, pyhash, call, memo>>

vars == <<config, generation_progress, cache, gendirs, videos, pc, req, loc,
          resp, hist, progressResp, rng, pyhash, call, memo>>

----------------------------------------------------------------------------
(* Bounds of the model *)

MaxTakes == 2
\* polls the bounded wait allows (the code: 30 x duration seconds, 5 s a poll)
MaxWait == 1

\* the longest list of takes handed to the ranking
MaxRank == 3

\* the longest violation list handed to the reviser
MaxViolations == 2
\* states of the random generator (each draw maps a state to a value)
RngStates == 4

(* Program constants *)

SmallFileThreshold == 100000
\* Config.MIN_IDENTITY_PERSISTENCE and Config.MIN_PATH_REALISM, in hundredths
MIN_IDENTITY_PERSISTENCE == 85
MIN_PATH_REALISM == 80
\* _apply_general_enhancements leaves prompts of this many words alone
MaxEnhanceWords == 30
\* Config.AGENT_SIMULATION_DURATION, in seconds
AGENT_SIMULATION_DURATION == 30
PlaceholderSize == 15000

\* request threads: two suffice for the interleavings of two handlers
Threads == {1, 2}
TakeIds == 1..MaxTakes
\* overall scores, in tenths: the default Score Set's overall (0.5) and two
\* values of the range the scorer produces for an existing file
DefaultScore == 5
Scores == {8, 9}

\* sizes a generated file can have: the placeholder, and the two sides of the
\* small-file threshold
SmallSize == SmallFileThreshold - 1
BigSize == SmallFileThreshold

----------------------------------------------------------------------------
(* Prompts and hashes *)

\* request bodies' "prompt" values, as character sequences
RawPrompts == { <<>>, <<" ">>, <<"a">>, <<" ", "a">>, <<"b", " ">> }

RECURSIVE LStrip(_)
LStrip(s) == IF s # <<>> /\ Head(s) = " " THEN LStrip(Tail(s)) ELSE s

RECURSIVE RStrip(_)
RStrip(s) ==
    IF s # <<>> /\ s[Len(s)] = " " THEN RStrip(SubSeq(s, 1, Len(s) - 1)) ELSE s

\* a faulty trim that keeps the blanks
KeepBlanks(s) == s

\* str.strip()
Strip(s) == RStrip(LStrip(s))

\* sha256(prompt)[:16]: a digest that names the prompt (collisions ignored)
generate_prompt_hash(prompt) == <<"sha256">> \o prompt

Prompts == { Strip(r) : r \in RawPrompts } \ { <<>> }
Hashes == { generate_prompt_hash(p) : p \in Prompts }

\* get_video_path / output_dir / f"take_{i}.mp4"
VideoPath(h, i) == <<h, i>>

\* get_relative_url
get_relative_url(path) == <<"data", "generations">> \o path

----------------------------------------------------------------------------
(* Records *)

NoRequest == [prompt |-> <<>>, num_takes |-> 0, takes_is_int |-> TRUE,
              use_real_api |-> FALSE]

NoLocals == [i |-> 0, job |-> "none", elapsed |-> 0, origin |-> <<>>,
             takes |-> <<>>, mode |-> "none"]

NoResponse == [code |-> 0, success |-> "absent", cached |-> FALSE,
               body |-> <<>>]

NoHistory == [cacheRead |-> FALSE, lookup |-> "none", generated |-> 0,
              scored |-> 0, timedOut |-> FALSE, runStatus |-> "none",
              stored |-> FALSE]

NoProgressResp == [code |-> 0, body |-> <<>>]

\* no library call in hand
NoCall == [op |-> "none", input |-> <<>>, result |-> <<>>, done |-> FALSE]

HashOf(t) == generate_prompt_hash(req[t].prompt)

\* the whole-struct literals the handler writes into generation_progress
ProgressQueued ==
    [status |-> "queued", progress |-> 0, message |-> "Initializing generation..."]
ProgressStarting ==
    [status |-> "in_progress", progress |-> 10, message |-> "Starting video generation..."]
ProgressScoring ==
    [status |-> "in_progress", progress |-> 90, message |-> "Scoring videos..."]
ProgressCompleted ==
    [status |-> "completed", progress |-> 100, message |-> "Generation complete!"]
\* a faulty failure struct that keeps the progress reached
ProgressFailedKeepsProgress ==
    [status |-> "failed", progress |-> 10, message |-> "Generation failed: <error>"]

ProgressFailed ==
    [status |-> "failed", progress |-> 0, message |-> "Generation failed: <error>"]

\* update_progress(status, progress, message): the callback's struct
ProgressFromJob(status, progress) ==
    [status |-> status, progress |-> progress, message |-> "Generating video: <progress>%"]

\* a faulty update that mutates the stored struct in place, one field at a
\* time, and is seen after its first field
SetProgressInPlace(h, rec) ==
    [k \in (DOMAIN generation_progress) \cup {h} |->
        IF k # h THEN generation_progress[k]
        ELSE IF h \in DOMAIN generation_progress
             THEN [generation_progress[h] EXCEPT !.status = rec.status]
             ELSE rec]

\* generation_progress[prompt_hash] = {...}: one item assignment of a new dict
SetProgress(h, rec) ==
    [k \in (DOMAIN generation_progress) \cup {h} |->
        IF k = h THEN rec ELSE generation_progress[k]]

----------------------------------------------------------------------------
(* The cache file: json.dump / json.load *)

\* json.dump(response, f, indent=2): the text of a record, in blocks, in the
\* order of the dict's keys: prompt_hash and prompt, one block a take, then
\* mode and success
Serialize(record) ==
    <<[b |-> "head", data |-> [prompt_hash |-> record.prompt_hash,
                               prompt |-> record.prompt]]>>
    \o [k \in 1..Len(record.takes) |-> [b |-> "take", data |-> record.takes[k]]]
    \o <<[b |-> "tail", data |-> [mode |-> record.mode,
                                  success |-> record.success]]>>

\* json.load succeeds on exactly one complete document
ParseOK(content) ==
    /\ Len(content) >= 2
    /\ content[1].b = "head"
    /\ content[Len(content)].b = "tail"
    /\ \A k \in 2..(Len(content) - 1) : content[k].b = "take"

Parse(content) ==
    [prompt_hash |-> content[1].data.prompt_hash,
     prompt |-> content[1].data.prompt,
     takes |-> [k \in 1..(Len(content) - 2) |-> content[k + 1].data],
     mode |-> content[Len(content)].data.mode,
     success |-> content[Len(content)].data.success]

\* a write of `text` at offset 0 of a file holding `old`: what lies beyond the
\* written text stays
WriteAt0(old, text) == text \o SubSeq(old, Len(text) + 1, Len(old))

----------------------------------------------------------------------------
(* Scoring and ranking *)

\* a faulty insertion that puts a take before the takes of equal score
RECURSIVE InsertDescUnstable(_, _)
InsertDescUnstable(x, s) ==
    IF s = <<>> THEN <<x>>
    ELSE IF Head(s).overall > x.overall
         THEN <<Head(s)>> \o InsertDescUnstable(x, Tail(s))
         ELSE <<x>> \o s

\* sorted(takes, key=overall, reverse=True): a stable insertion of x, which
\* followed every element of s in the input
RECURSIVE InsertDesc(_, _)
InsertDesc(x, s) ==
    IF s = <<>> THEN <<x>>
    ELSE IF Head(s).overall >= x.overall
         THEN <<Head(s)>> \o InsertDesc(x, Tail(s))
         ELSE <<x>> \o s

RECURSIVE SortedDesc(_)
SortedDesc(takes) ==
    IF takes = <<>> THEN <<>>
    ELSE InsertDesc(takes[Len(takes)], SortedDesc(SubSeq(takes, 1, Len(takes) - 1)))

\* for rank, take in enumerate(takes_sorted, start=1): take['rank'] = rank
WithRanks(sorted) ==
    [k \in 1..Len(sorted) |->
        [take_id |-> sorted[k].take_id, video_url |-> sorted[k].video_url,
         video_path |-> sorted[k].video_path, overall |-> sorted[k].overall,
         origin |-> sorted[k].origin, rank |-> k]]

\* score_video: the default Score Set for a missing file, else the scores the
\* scorer computes (sc)
score_video(path, sc) == IF path \in DOMAIN videos THEN sc ELSE DefaultScore

\* a faulty take list numbered from 0: enumerate(video_paths)
ScoredTakesFromZero(h, n, sc, origin) ==
    [k \in 1..n |->
        [take_id |-> k - 1, video_url |-> get_relative_url(VideoPath(h, k)),
         video_path |-> VideoPath(h, k),
         overall |-> score_video(VideoPath(h, k), sc[k]),
         origin |-> origin[k]]]

\* the takes list of generate_videos; origin (not in the code's dict) records
\* which generator produced the take in this run
ScoredTakes(h, n, sc, origin) ==
    [k \in 1..n |->
        [take_id |-> k, video_url |-> get_relative_url(VideoPath(h, k)),
         video_path |-> VideoPath(h, k),
         overall |-> score_video(VideoPath(h, k), sc[k]),
         origin |-> origin[k]]]

----------------------------------------------------------------------------
(* Initial state: a fresh process on an empty data directory *)

\* Config.validate() refuses USE_MOCK=false without an API key
Configs == { c \in [USE_MOCK : BOOLEAN, api_key : BOOLEAN] :
                c.USE_MOCK \/ c.api_key }

Init ==
    /\ config \in Configs
    /\ generation_progress = <<>>
    /\ cache = <<>>
    /\ gendirs = {}
    /\ videos = <<>>
    /\ pc = [t \in Threads |-> "idle"]
    /\ req = [t \in Threads |-> NoRequest]
    /\ loc = [t \in Threads |-> NoLocals]
    /\ resp = [t \in Threads |-> NoResponse]
    /\ hist = [t \in Threads |-> NoHistory]
    /\ progressResp = NoProgressResp
    /\ rng = 0
    /\ pyhash = <<>>
    /\ call = NoCall
    /\ memo = <<>>

----------------------------------------------------------------------------
(* generate_videos, step by step *)

\* lines 161-172: parse the request, reject an empty prompt, hash the prompt
Request(t, raw, n, isInt, real) ==
    /\ pc[t] = "idle"
    /\ LET prompt == Strip(raw) IN
        IF prompt = <<>>
        THEN /\ resp' = [resp EXCEPT ![t] =
                    [code |-> 400, success |-> "absent", cached |-> FALSE,
                     body |-> <<>>]]
             /\ req' = [req EXCEPT ![t] = NoRequest]
             /\ pc' = pc
        ELSE /\ resp' = [resp EXCEPT ![t] = NoResponse]
             /\ req' = [req EXCEPT ![t] =
                    [prompt |-> prompt, num_takes |-> n, takes_is_int |-> isInt,
                     use_real_api |-> real]]
             /\ pc' = [pc EXCEPT ![t] = "lookup"]
    /\ loc' = [loc EXCEPT ![t] = NoLocals]
    /\ hist' = [hist EXCEPT ![t] = NoHistory]
    /\ UNCHANGED <<libvars, config, generation_progress, cache, gendirs, videos,
                   progressResp>>

\* a faulty guard that consults the cache whatever the mode
CacheConsultedInAnyMode(t) == HashOf(t) \in DOMAIN cache

\* line 176: cache_file.exists() and use_real_api
CacheConsulted(t) == HashOf(t) \in DOMAIN cache /\ req[t].use_real_api

\* a faulty validation that accepts a record when any of its files exists
AnyExist(takes) == \E k \in 1..Len(takes) : takes[k].video_path \in DOMAIN videos

\* lines 183-186: all(Path(take['video_path']).exists() for take in takes)
AllExist(takes) == \A k \in 1..Len(takes) : takes[k].video_path \in DOMAIN videos

\* a faulty cache-hit response that lacks the cached tag
UntaggedResponse(cached_data) ==
    [code |-> 200, success |-> "true", cached |-> FALSE, body |-> cached_data]

\* lines 190-194: {**cached_data, 'cached': True, 'success': True}
CachedResponse(cached_data) ==
    [code |-> 200, success |-> "true", cached |-> TRUE, body |-> cached_data]

\* lines 174-198: the cache lookup
Lookup(t) ==
    /\ pc[t] = "lookup"
    /\ LET h == HashOf(t) IN
        IF CacheConsulted(t)
        THEN IF ParseOK(cache[h])
             THEN IF AllExist(Parse(cache[h]).takes)
                  THEN /\ resp' = [resp EXCEPT ![t] = CachedResponse(Parse(cache[h]))]
                       /\ pc' = [pc EXCEPT ![t] = "idle"]
                       /\ hist' = [hist EXCEPT ![t].cacheRead = TRUE,
                                               ![t].lookup = "hit"]
                  ELSE /\ pc' = [pc EXCEPT ![t] = "accept"]
                       /\ hist' = [hist EXCEPT ![t].cacheRead = TRUE,
                                               ![t].lookup = "invalid"]
                       /\ resp' = resp
             ELSE /\ pc' = [pc EXCEPT ![t] = "accept"]
                  /\ hist' = [hist EXCEPT ![t].cacheRead = TRUE,
                                          ![t].lookup = "unreadable"]
                  /\ resp' = resp
        ELSE /\ pc' = [pc EXCEPT ![t] = "accept"]
             /\ hist' = [hist EXCEPT ![t].lookup = "skipped"]
             /\ resp' = resp
    /\ UNCHANGED <<libvars, config, generation_progress, cache, gendirs, videos, req,
                   loc, progressResp>>

\* lines 200-205: the queued struct
Accept(t) ==
    /\ pc[t] = "accept"
    /\ generation_progress' = SetProgress(HashOf(t), ProgressQueued)
    /\ hist' = [hist EXCEPT ![t].runStatus = "queued"]
    /\ pc' = [pc EXCEPT ![t] = "provision"]
    /\ UNCHANGED <<libvars, config, cache, gendirs, videos, req, loc, resp, progressResp>>

\* lines 207-225: output directory, metadata, the in_progress struct
Provision(t) ==
    /\ pc[t] = "provision"
    /\ gendirs' = gendirs \cup {HashOf(t)}
    /\ generation_progress' = SetProgress(HashOf(t), ProgressStarting)
    /\ hist' = [hist EXCEPT ![t].runStatus = "in_progress"]
    /\ loc' = [loc EXCEPT ![t].i = 1]
    /\ pc' = [pc EXCEPT ![t] = "gen"]
    /\ UNCHANGED <<libvars, config, cache, videos, req, resp, progressResp>>

----------------------------------------------------------------------------
(* SoraHandler.generate_n_takes *)

\* SoraHandler.__init__: the handler a request generates with runs in mock mode.
\* A real request builds SoraHandler(use_mock=False), which falls back to mock
\* mode without an API key; a simulated one uses the module's singleton
UsesMock(t) ==
    IF req[t].use_real_api THEN ~config.api_key ELSE config.USE_MOCK

\* only the handler of a real request is given update_progress
HasCallback(t) == req[t].use_real_api

\* sizes of the files _generate_mock_video leaves: the placeholder it writes
\* without ffmpeg, or an ffmpeg test clip on either side of the threshold
MockSizes == {PlaceholderSize, BigSize}
\* sizes of a downloaded video
RealSizes == {SmallSize, BigSize}

\* a faulty write that leaves no file behind
WriteVideoSkipped(path, file) == videos

\* the file at `path` is created or replaced
WriteVideo(path, file) ==
    [k \in (DOMAIN videos) \cup {path} |-> IF k = path THEN file ELSE videos[k]]

\* _generate_mock_video(video_path, ...), then video_paths.append(video_path)
MockTake(t, size) ==
    /\ videos' = WriteVideo(VideoPath(HashOf(t), loc[t].i),
                            [kind |-> "mock", size |-> size])
    /\ loc' = [loc EXCEPT ![t].i = @ + 1, ![t].job = "none", ![t].elapsed = 0,
                          ![t].origin = Append(@, "mock")]
    /\ pc' = [pc EXCEPT ![t] = "gen"]

\* line 73: range(1, num_takes + 1) raises TypeError for a num_takes that is
\* no integer (a JSON string, null, a float); generate_videos' handler
\* (lines 314-326) records the failure and answers 500
GenFail(t) ==
    /\ pc[t] = "gen"
    /\ ~req[t].takes_is_int
    /\ generation_progress' = SetProgress(HashOf(t), ProgressFailed)
    /\ hist' = [hist EXCEPT ![t].runStatus = "failed"]
    /\ resp' = [resp EXCEPT ![t] =
            [code |-> 500, success |-> "false", cached |-> FALSE, body |-> <<>>]]
    /\ pc' = [pc EXCEPT ![t] = "idle"]
    /\ loc' = [loc EXCEPT ![t] = NoLocals]
    /\ UNCHANGED <<libvars, config, cache, gendirs, videos, req, progressResp>>

\* lines 73-77: a take of a handler in mock mode
GenMockTake(t, size) ==
    /\ pc[t] = "gen"
    /\ req[t].takes_is_int
    /\ loc[t].i <= req[t].num_takes
    /\ UsesMock(t)
    /\ MockTake(t, size)
    /\ hist' = [hist EXCEPT ![t].generated = @ + 1]
    /\ UNCHANGED <<libvars, config, generation_progress, cache, gendirs, req, resp,
                   progressResp>>

\* lines 159-175: client.videos.create returns a job
JobCreate(t, status) ==
    /\ pc[t] = "gen"
    /\ req[t].takes_is_int
    /\ loc[t].i <= req[t].num_takes
    /\ ~UsesMock(t)
    /\ loc' = [loc EXCEPT ![t].job = status, ![t].elapsed = 0]
    /\ pc' = [pc EXCEPT ![t] = "poll"]
    /\ UNCHANGED <<libvars, config, generation_progress, cache, gendirs, videos, req,
                   resp, hist, progressResp>>

\* lines 160-173, 209-212: the import or the create call raises; the handler
\* falls back to the mock generator
JobCreateFails(t, size) ==
    /\ pc[t] = "gen"
    /\ req[t].takes_is_int
    /\ loc[t].i <= req[t].num_takes
    /\ ~UsesMock(t)
    /\ MockTake(t, size)
    /\ hist' = [hist EXCEPT ![t].generated = @ + 1]
    /\ UNCHANGED <<libvars, config, generation_progress, cache, gendirs, req, resp,
                   progressResp>>

\* the states an external job reports after `status`
JobNext(status) ==
    IF status = "queued" THEN {"queued", "in_progress", "completed", "failed"}
    ELSE {"in_progress", "completed", "failed"}

\* getattr(video, "progress", 0) of a job in `status`
JobProgress(status) ==
    CASE status = "queued" -> {0}
      [] status = "in_progress" -> {50}
      [] status = "completed" -> {100}
      [] status = "failed" -> {0, 50}

\* a faulty clock that wraps around before the wait can run out
WaitedWraps(elapsed) == (elapsed + 1) % (MaxWait + 1)

\* line 185: time.sleep(5) lets the clock advance by one poll interval
Waited(elapsed) == elapsed + 1

\* line 182: time.time() - start_time > max_wait
TimedOut(elapsed) == elapsed > MaxWait

\* lines 181-196: one turn of the polling loop: sleep, retrieve, callback
Poll(t, status, progress) ==
    /\ pc[t] = "poll"
    /\ loc[t].job \in {"queued", "in_progress"}
    /\ ~TimedOut(loc[t].elapsed)
    /\ status \in JobNext(loc[t].job)
    /\ progress \in JobProgress(status)
    /\ loc' = [loc EXCEPT ![t].job = status, ![t].elapsed = Waited(@)]
    /\ IF HasCallback(t)
       THEN /\ generation_progress' =
                  SetProgress(HashOf(t), ProgressFromJob(status, progress))
            /\ hist' = [hist EXCEPT ![t].runStatus = status]
       ELSE UNCHANGED <<generation_progress, hist>>
    /\ UNCHANGED <<libvars, config, cache, gendirs, videos, pc, req, resp, progressResp>>

\* lines 182-183, 209-212: TimeoutError, caught by the fallback to mock
PollTimeout(t, size) ==
    /\ pc[t] = "poll"
    /\ loc[t].job \in {"queued", "in_progress"}
    /\ TimedOut(loc[t].elapsed)
    /\ MockTake(t, size)
    /\ hist' = [hist EXCEPT ![t].generated = @ + 1, ![t].timedOut = TRUE]
    /\ UNCHANGED <<libvars, config, generation_progress, cache, gendirs, req, resp,
                   progressResp>>

\* lines 198-200, 209-212: the job failed; the exception is caught by the
\* fallback to mock
JobFailed(t, size) ==
    /\ pc[t] = "poll"
    /\ loc[t].job = "failed"
    /\ MockTake(t, size)
    /\ hist' = [hist EXCEPT ![t].generated = @ + 1]
    /\ UNCHANGED <<libvars, config, generation_progress, cache, gendirs, req, resp,
                   progressResp>>

\* lines 202-207: download the completed video
Download(t, size) ==
    /\ pc[t] = "poll"
    /\ loc[t].job = "completed"
    /\ videos' = WriteVideo(VideoPath(HashOf(t), loc[t].i),
                            [kind |-> "real", size |-> size])
    /\ loc' = [loc EXCEPT ![t].i = @ + 1, ![t].job = "none", ![t].elapsed = 0,
                          ![t].origin = Append(@, "real")]
    /\ pc' = [pc EXCEPT ![t] = "gen"]
    /\ hist' = [hist EXCEPT ![t].generated = @ + 1]
    /\ UNCHANGED <<libvars, config, generation_progress, cache, gendirs, req, resp,
                   progressResp>>

\* generate_n_takes returns; main.py lines 251-256: the simulated branch
\* writes the scoring struct
GenDone(t) ==
    /\ pc[t] = "gen"
    /\ req[t].takes_is_int
    /\ loc[t].i > req[t].num_takes
    /\ IF req[t].use_real_api
       THEN UNCHANGED <<generation_progress, hist>>
       ELSE /\ generation_progress' = SetProgress(HashOf(t), ProgressScoring)
            /\ hist' = [hist EXCEPT ![t].runStatus = "in_progress"]
    /\ pc' = [pc EXCEPT ![t] = "score"]
    /\ UNCHANGED <<libvars, config, cache, gendirs, videos, req, loc, resp, progressResp>>

\* the list generate_n_takes has built so far: video_paths.append(video_path)
\* for every take before the one in hand
video_paths(t) == [k \in 1..(loc[t].i - 1) |-> VideoPath(HashOf(t), k)]

----------------------------------------------------------------------------
(* Scoring, mode reconciliation, completion and the cache store *)

\* lines 258-275: score every take, sort by overall, assign ranks
Score(t, sc) ==
    /\ pc[t] = "score"
    /\ sc \in [1..req[t].num_takes -> Scores]
    /\ loc' = [loc EXCEPT ![t].takes =
            WithRanks(SortedDesc(
                ScoredTakes(HashOf(t), req[t].num_takes, sc, loc[t].origin)))]
    /\ hist' = [hist EXCEPT ![t].scored = req[t].num_takes]
    /\ pc' = [pc EXCEPT ![t] = "complete"]
    /\ UNCHANGED <<libvars, config, generation_progress, cache, gendirs, videos, req,
                   resp, progressResp>>

\* lines 277-284: REAL for a real request unless its first video is small
ActualMode(t) ==
    IF /\ req[t].use_real_api
       /\ req[t].num_takes >= 1
       /\ VideoPath(HashOf(t), 1) \in DOMAIN videos
       /\ videos[VideoPath(HashOf(t), 1)].size < SmallFileThreshold
    THEN "MOCK"
    ELSE IF req[t].use_real_api THEN "REAL" ELSE "MOCK"

\* lines 293-299
Response(t) ==
    [prompt_hash |-> HashOf(t), prompt |-> req[t].prompt,
     takes |-> loc[t].takes, mode |-> loc[t].mode, success |-> TRUE]

OkResponse(record) ==
    [code |-> 200, success |-> "true", cached |-> FALSE, body |-> record]

\* line 302: use_real_api and actual_mode == 'REAL'
ShouldStore(t, mode) == req[t].use_real_api /\ mode = "REAL"

\* lines 277-299 (and 311-312 when nothing is stored): reconcile the mode,
\* write the completed struct
Complete(t) ==
    /\ pc[t] = "complete"
    /\ generation_progress' = SetProgress(HashOf(t), ProgressCompleted)
    /\ hist' = [hist EXCEPT ![t].runStatus = "completed"]
    /\ IF ShouldStore(t, ActualMode(t))
       THEN /\ pc' = [pc EXCEPT ![t] = "store_open"]
            /\ loc' = [loc EXCEPT ![t].mode = ActualMode(t)]
            /\ resp' = resp
       ELSE /\ pc' = [pc EXCEPT ![t] = "idle"]
            /\ loc' = [loc EXCEPT ![t] = NoLocals]
            /\ resp' = [resp EXCEPT ![t] =
                    OkResponse([prompt_hash |-> HashOf(t), prompt |-> req[t].prompt,
                                takes |-> loc[t].takes, mode |-> ActualMode(t),
                                success |-> TRUE])]
    /\ UNCHANGED <<libvars, config, cache, gendirs, videos, req, progressResp>>

\* open(cache_file, 'w') creates or truncates the file
OpenForWrite(h) ==
    [k \in (DOMAIN cache) \cup {h} |-> IF k = h THEN <<>> ELSE cache[k]]

\* line 305
StoreOpen(t) ==
    /\ pc[t] = "store_open"
    /\ cache' = OpenForWrite(HashOf(t))
    /\ pc' = [pc EXCEPT ![t] = "store_write"]
    /\ UNCHANGED <<libvars, config, generation_progress, gendirs, videos, req, loc, resp,
                   hist, progressResp>>

\* the record's text reaches the file when the buffered writer is flushed at
\* the end of the with block: one write at the descriptor's offset 0
FlushRecord(h, record) ==
    [cache EXCEPT ![h] = WriteAt0(cache[h], Serialize(record))]

\* lines 306-312: json.dump, close, return the response
StoreWrite(t) ==
    /\ pc[t] = "store_write"
    /\ cache' = FlushRecord(HashOf(t), Response(t))
    /\ hist' = [hist EXCEPT ![t].stored = TRUE]
    /\ resp' = [resp EXCEPT ![t] = OkResponse(Response(t))]
    /\ pc' = [pc EXCEPT ![t] = "idle"]
    /\ loc' = [loc EXCEPT ![t] = NoLocals]
    /\ UNCHANGED <<libvars, config, generation_progress, gendirs, videos, req,
                   progressResp>>

----------------------------------------------------------------------------
(* The other operations *)

\* get_progress(prompt_hash)
get_progress(h) ==
    IF h \in DOMAIN generation_progress
    THEN [code |-> 200, body |-> generation_progress[h]]
    ELSE [code |-> 404,
          body |-> [status |-> "not_found", progress |-> 0,
                    message |-> "Generation not found"]]

GetProgress(h) ==
    /\ progressResp' = get_progress(h)
    /\ UNCHANGED <<libvars, config, generation_progress, cache, gendirs, videos, pc, req,
                   loc, resp, hist>>

\* a thread is inside generate_videos for hash h
InFlight(t, h) == pc[t] # "idle" /\ HashOf(t) = h

\* cleanup_old_generations: shutil.rmtree of a generation directory that no
\* run has touched for `days` days
Cleanup(h) ==
    /\ h \in gendirs
    /\ \A t \in Threads : ~InFlight(t, h)
    /\ gendirs' = gendirs \ {h}
    /\ videos' = [k \in {q \in DOMAIN videos : q[1] # h} |-> videos[k]]
    /\ UNCHANGED <<libvars, config, generation_progress, cache, pc, req, loc, resp, hist,
                   progressResp>>

----------------------------------------------------------------------------

\* request bodies: the prompt, num_takes (an integer, or a value range()
\* rejects) and use_real_api
RequestBodies(raws, counts) ==
    [raw : raws, num_takes : counts, takes_is_int : {TRUE}, use_real_api : BOOLEAN]
    \cup [raw : raws, num_takes : {0}, takes_is_int : {FALSE},
          use_real_api : BOOLEAN]

\* the steps of generate_videos after the request was parsed, for the threads
\* T, with mock files of the sizes MS, downloads of the sizes RS and scores
\* from SC
Handler(T, MS, RS, SC) ==
    \/ \E t \in T : Lookup(t)
    \/ \E t \in T : Accept(t)
    \/ \E t \in T : Provision(t)
    \/ \E t \in T : GenFail(t)
    \/ \E t \in T, size \in MS : GenMockTake(t, size)
    \/ \E t \in T, status \in {"queued", "in_progress"} : JobCreate(t, status)
    \/ \E t \in T, size \in MS : JobCreateFails(t, size)
    \/ \E t \in T, status \in {"queued", "in_progress", "completed", "failed"},
          progress \in {0, 50, 100} : Poll(t, status, progress)
    \/ \E t \in T, size \in MS : PollTimeout(t, size)
    \/ \E t \in T, size \in MS : JobFailed(t, size)
    \/ \E t \in T, size \in RS : Download(t, size)
    \/ \E t \in T : GenDone(t)
    \/ \E t \in T, sc \in [TakeIds -> SC] :
            Score(t, [k \in 1..req[t].num_takes |-> sc[k]])
    \/ \E t \in T : Complete(t)
    \/ \E t \in T : StoreOpen(t)
    \/ \E t \in T : StoreWrite(t)

\* the steps of the request threads T serving the bodies B
Step(T, B, MS, RS, SC) ==
    \/ \E t \in T, b \in B :
            Request(t, b.raw, b.num_takes, b.takes_is_int, b.use_real_api)
    \/ Handler(T, MS, RS, SC)

\* Sequential service: one request at a time, for one prompt in its padded and
\* empty variants, asking for no take, one take or the longest take list, and
\* the clean-up of generation directories between requests
SeqBodies ==
    RequestBodies({ <<>>, <<" ">>, <<"a">>, <<" ", "a">> }, {0, 1, MaxTakes})

Next ==
    \/ Step({1}, SeqBodies, MockSizes, RealSizes, Scores)
    \/ \E h \in Hashes : Cleanup(h)

Spec == Init /\ [][Next]_vars

\* Concurrent service of one prompt by two threads: real requests for the
\* shortest and the longest take list, and a request that fails
InitConc == Init /\ config.USE_MOCK

NextConc ==
    Step(Threads,
         [raw : {<<"a">>}, num_takes : {1, MaxTakes}, takes_is_int : {TRUE},
          use_real_api : {TRUE}]
         \cup { [raw |-> <<"a">>, num_takes |-> 0, takes_is_int |-> FALSE,
                 use_real_api |-> FALSE] },
         {PlaceholderSize}, {BigSize}, {8})

SpecConc == InitConc /\ [][NextConc]_vars

\* Concurrent writers of the progress map (a real, a simulated and a failing
\* request for one prompt, a simulated request for another) and a reader of it
NextRead ==
    \/ Step(Threads,
            [raw : {<<"a">>}, num_takes : {1}, takes_is_int : {TRUE},
             use_real_api : BOOLEAN]
            \cup { [raw |-> <<"a">>, num_takes |-> 0, takes_is_int |-> FALSE,
                    use_real_api |-> FALSE],
                   [raw |-> <<"b", " ">>, num_takes |-> 1, takes_is_int |-> TRUE,
                    use_real_api |-> FALSE] },
            {PlaceholderSize}, {BigSize}, {8})
    \/ \E h \in Hashes : GetProgress(h)

InitRead == Init /\ config.USE_MOCK /\ config.api_key

SpecRead == InitRead /\ [][NextRead]_vars

\* One request thread that runs every handler it starts to its end: a real, a
\* simulated and a failing request for one prompt.  The fairness is that of a
\* thread that is scheduled and whose external calls return; it does not make
\* the external job leave queued or in_progress.
NextLive ==
    Step({1},
         [raw : {<<"a">>}, num_takes : {1}, takes_is_int : BOOLEAN,
          use_real_api : BOOLEAN],
         {PlaceholderSize}, {BigSize}, {8})

SpecLive ==
    /\ Init
    /\ [][NextLive]_vars
    /\ WF_vars(Handler({1}, {PlaceholderSize}, {BigSize}, {8}))

----------------------------------------------------------------------------
(* The library operations on their own: ranking *)

\* the pipeline at rest: no request in flight, empty data directory
PipelineIdle ==
    /\ generation_progress = <<>>
    /\ cache = <<>>
    /\ gendirs = {}
    /\ videos = <<>>
    /\ pc = [t \in Threads |-> "idle"]
    /\ req = [t \in Threads |-> NoRequest]
    /\ loc = [t \in Threads |-> NoLocals]
    /\ resp = [t \in Threads |-> NoResponse]
    /\ hist = [t \in Threads |-> NoHistory]
    /\ progressResp = NoProgressResp

pipevars == <<config, generation_progress, cache, gendirs, videos, pc, req,
              loc, resp, hist, progressResp>>

\* overall scores of the takes handed to the ranking, in tenths
RankScores == {DefaultScore, 7} \cup Scores

\* lists of scored takes as generate_videos builds them (lines 259-268)
RankInputs ==
    UNION { { [k \in 1..n |->
                [take_id |-> k,
                 video_url |-> get_relative_url(VideoPath(<<"h">>, k)),
                 video_path |-> VideoPath(<<"h">>, k),
                 overall |-> sc[k], origin |-> "real"]] :
              sc \in [1..n -> RankScores] } : n \in 0..MaxRank }

\* main.py lines 271-275: sort by overall, best first, and number the ranks
RankTakes ==
    /\ call.op = "rank"
    /\ ~call.done
    /\ call' = [call EXCEPT !.result = WithRanks(SortedDesc(call.input)),
                            !.done = TRUE]
    /\ UNCHANGED <<pipevars, rng, pyhash, memo>>

InitRank ==
    /\ config \in Configs
    /\ PipelineIdle
    /\ rng = 0
    /\ pyhash = <<>>
    /\ memo = <<>>
    /\ \E takes \in RankInputs :
            call = [op |-> "rank", input |-> takes, result |-> <<>>,
                    done |-> FALSE]

SpecRank == InitRank /\ [][RankTakes]_vars

----------------------------------------------------------------------------
(* The library operations on their own: the random generator and the scorer *)
(* Metrics are in hundredths, the overall score in ten-thousandths          *)

\* random.seed(k)
Seed(k) == k % RngStates

\* the generator's state after i draws from state s
Drawn(s, i) == (s + i) % RngStates

\* random.uniform(lo, hi) drawn in state s
uniform(lo, hi, s) == lo + ((hi - lo) * s) \div RngStates

\* random.randint(lo, hi) drawn in state s
randint(lo, hi, s) == lo + ((hi - lo + 1) * s) \div RngStates

\* the files the library calls are made on: a take that exists, a take that
\* does not, and a reconstructed asset
ExistingVideo == VideoPath(<<"h">>, 1)
MissingVideo == VideoPath(<<"h">>, 2)
ExistingAsset == <<"asset">>
LibFiles == {ExistingVideo, ExistingAsset}

MetricKeys == {"identity_persistence", "path_realism", "physics_plausibility",
               "visual_quality", "motion_smoothness", "temporal_coherence"}

\* a faulty default Score Set whose overall is zero
zero_overall_scores ==
    [identity_persistence |-> 50, path_realism |-> 50,
     physics_plausibility |-> 50, visual_quality |-> 50,
     motion_smoothness |-> 50, temporal_coherence |-> 50, overall |-> 0]

\* VideoScorer._get_default_scores
get_default_scores ==
    [identity_persistence |-> 50, path_realism |-> 50,
     physics_plausibility |-> 50, visual_quality |-> 50,
     motion_smoothness |-> 50, temporal_coherence |-> 50, overall |-> 5000]

\* VideoScorer._calculate_overall_score: sum(scores.get(k, 0.5) * w)
calculate_overall_score(scores) ==
    25 * scores.identity_persistence + 20 * scores.path_realism
    + 20 * scores.physics_plausibility + 15 * scores.visual_quality
    + 10 * scores.motion_smoothness + 10 * scores.temporal_coherence

\* scores['overall'] = ...
WithOverall(scores) ==
    [k \in MetricKeys \cup {"overall"} |->
        IF k = "overall" THEN calculate_overall_score(scores) ELSE scores[k]]

\* a faulty mock scorer that draws from the generator as it finds it
score_video_mock_unseeded(path, s) ==
    [identity_persistence |-> uniform(82, 98, Drawn(s, 1)),
     path_realism |-> uniform(80, 96, Drawn(s, 2)),
     physics_plausibility |-> uniform(75, 95, Drawn(s, 3)),
     visual_quality |-> uniform(85, 99, Drawn(s, 4)),
     motion_smoothness |-> uniform(78, 97, Drawn(s, 5)),
     temporal_coherence |-> uniform(80, 98, Drawn(s, 6))]

\* VideoScorer._score_video_mock called in generator state s: one draw for the
\* sleep, then random.seed(hash(str(video_path)) % 10000) and six draws
score_video_mock(path, s) ==
    LET seeded == Seed(pyhash[path] % 10000) IN
    [identity_persistence |-> uniform(82, 98, Drawn(seeded, 0)),
     path_realism |-> uniform(80, 96, Drawn(seeded, 1)),
     physics_plausibility |-> uniform(75, 95, Drawn(seeded, 2)),
     visual_quality |-> uniform(85, 99, Drawn(seeded, 3)),
     motion_smoothness |-> uniform(78, 97, Drawn(seeded, 4)),
     temporal_coherence |-> uniform(80, 98, Drawn(seeded, 5))]

\* what the analysis of a file can meet: OpenCV missing, a file it cannot
\* open, fewer than two frames, an exception, or frames to measure
Analyses == {"import_error", "unopened", "few_frames", "exception", "frames"}

\* mean of cv2.compareHist(..., HISTCMP_CORREL) over the frame pairs: a
\* correlation coefficient
Correlations == {-50, 0, 50, 100}

\* max(0.5, min(1.0, avg_sharpness / 500.0))
Sharpness == {50, 75, 100}

\* VideoScorer._score_video_real on frames, in generator state s, with mean
\* histogram correlation c and normalised sharpness q
score_video_frames(c, q, s) ==
    [identity_persistence |-> c,
     path_realism |-> uniform(80, 94, Drawn(s, 0)),
     physics_plausibility |-> uniform(75, 92, Drawn(s, 1)),
     visual_quality |-> q,
     motion_smoothness |-> uniform(78, 96, Drawn(s, 2)),
     temporal_coherence |-> uniform(80, 97, Drawn(s, 3))]

\* the scorer singleton is built with Config.USE_MOCK
ScorerUsesMock == config.USE_MOCK

\* the generator is reseeded by the mock scorer (random.seed() at the end)
ScoreReseeds(path, analysis) ==
    /\ path \in DOMAIN videos
    /\ ScorerUsesMock \/ analysis = "import_error"

\* VideoScorer.score_video(video_path) called in generator state s
VideoScorer_score_video(path, analysis, c, q, s) ==
    IF path \notin DOMAIN videos THEN get_default_scores
    ELSE IF ScorerUsesMock THEN WithOverall(score_video_mock(path, s))
    ELSE CASE analysis = "import_error" -> WithOverall(score_video_mock(path, s))
           [] analysis = "frames" -> WithOverall(score_video_frames(c, q, s))
           [] OTHER -> WithOverall(get_default_scores)

\* note a call's result: memo keeps the first result of every call, counts
\* the calls and notes whether another call ran after the first
Remember(key, result) ==
    [k \in (DOMAIN memo) \cup {key} |->
        IF k = key
        THEN IF key \in DOMAIN memo
             THEN [memo[key] EXCEPT !.calls = 2]
             ELSE [first |-> result, calls |-> 1, between |-> FALSE]
        ELSE IF memo[k].calls = 1 THEN [memo[k] EXCEPT !.between = TRUE]
             ELSE memo[k]]

\* one call of score_video; `fresh` is the state random.seed() leaves
ScoreVideo(path, analysis, c, q, fresh) ==
    /\ call' = [op |-> "score_video", input |-> path,
                result |-> VideoScorer_score_video(path, analysis, c, q, rng),
                done |-> TRUE]
    /\ rng' = IF ScoreReseeds(path, analysis) THEN fresh
              ELSE IF path \in DOMAIN videos /\ analysis = "frames"
                   THEN Drawn(rng, 4)
                   ELSE rng
    /\ UNCHANGED <<pipevars, pyhash>>

InitLib ==
    /\ config \in Configs
    /\ generation_progress = <<>>
    /\ cache = <<>>
    /\ gendirs = {<<"h">>}
    /\ videos = [f \in LibFiles |-> [kind |-> "real", size |-> BigSize]]
    /\ pc = [t \in Threads |-> "idle"]
    /\ req = [t \in Threads |-> NoRequest]
    /\ loc = [t \in Threads |-> NoLocals]
    /\ resp = [t \in Threads |-> NoResponse]
    /\ hist = [t \in Threads |-> NoHistory]
    /\ progressResp = NoProgressResp
    /\ rng \in 0..(RngStates - 1)
    /\ pyhash \in [LibFiles -> 0..(RngStates - 1)]
    /\ call = NoCall
    /\ memo = <<>>

\* the scorer called on its own, on either file, with every analysis outcome
NextLib ==
    \E path \in {ExistingVideo, MissingVideo}, analysis \in Analyses,
       c \in Correlations, q \in Sharpness, fresh \in 0..(RngStates - 1) :
        /\ ScoreVideo(path, analysis, c, q, fresh)
        /\ memo' = memo

SpecLib == InitLib /\ [][NextLib]_vars

----------------------------------------------------------------------------
(* The library operations on their own: the violation detector *)
(* Coordinates and timestamps are in hundredths                 *)

\* the violation_types list _test_world_mock builds with the draws that follow
\* randint, from generator state s
ViolationTypes(s) ==
    << [type |-> "PhysicsViolation", severity |-> "high",
        location |-> [x |-> uniform(-500, 500, Drawn(s, 1)), y |-> 0,
                      z |-> uniform(-500, 500, Drawn(s, 2))],
        timestamp |-> uniform(100, 100 * AGENT_SIMULATION_DURATION, Drawn(s, 3))],
       [type |-> "BoundaryViolation", severity |-> "medium",
        location |-> [x |-> uniform(-1000, 1000, Drawn(s, 4)), y |-> 0,
                      z |-> uniform(-1000, 1000, Drawn(s, 5))],
        timestamp |-> uniform(100, 100 * AGENT_SIMULATION_DURATION, Drawn(s, 6))],
       [type |-> "ObjectPersistence", severity |-> "medium",
        location |-> [x |-> uniform(-500, 500, Drawn(s, 7)),
                      y |-> uniform(0, 200, Drawn(s, 8)),
                      z |-> uniform(-500, 500, Drawn(s, 9))],
        timestamp |-> uniform(100, 100 * AGENT_SIMULATION_DURATION, Drawn(s, 10))],
       [type |-> "DepthInconsistency", severity |-> "low",
        location |-> [x |-> uniform(-500, 500, Drawn(s, 11)),
                      y |-> uniform(0, 200, Drawn(s, 12)),
                      z |-> uniform(-500, 500, Drawn(s, 13))],
        timestamp |-> uniform(100, 100 * AGENT_SIMULATION_DURATION, Drawn(s, 14))] >>

\* random.sample(population, k) drawn in state s: k distinct elements, in an
\* order the state decides
sample(population, k, s) ==
    [j \in 1..k |-> population[((s + j - 1) % Len(population)) + 1]]

\* the violations _test_world_mock selects from generator state s
MockViolations(s) ==
    LET num_violations == randint(0, 3, Drawn(s, 0))
        types == ViolationTypes(s)
    IN  sample(types, IF num_violations < Len(types) THEN num_violations
                      ELSE Len(types), Drawn(s, 15))

\* the metrics _test_world_mock draws after random.seed() left state f
MockMetrics(nv, f) ==
    [collision_rate |-> IF nv > 0 THEN uniform(0, 15, Drawn(f, 0)) ELSE 0,
     path_completion |-> uniform(70, 100, Drawn(f, IF nv > 0 THEN 1 ELSE 0)),
     physics_score |-> uniform(75, 95, Drawn(f, IF nv > 0 THEN 2 ELSE 1)),
     stability_score |-> uniform(80, 98, Drawn(f, IF nv > 0 THEN 3 ELSE 2))]

\* a faulty mock detector that draws from the generator as it finds it
test_world_mock_unseeded(asset, s, f) ==
    LET violations == MockViolations(s) IN
    [violations |-> violations, metrics |-> MockMetrics(Len(violations), f),
     success |-> violations = <<>>]

\* AgentModule._test_world_mock called in generator state s:
\* random.seed(hash(str(asset_path)) % 100), the draws, random.seed()
test_world_mock(asset, s, f) ==
    LET violations == MockViolations(Seed(pyhash[asset] % 100)) IN
    [violations |-> violations, metrics |-> MockMetrics(Len(violations), f),
     success |-> violations = <<>>]

\* AgentModule._test_world_real: no scenario reports a violation
test_world_real ==
    [violations |-> <<>>,
     metrics |-> [collision_rate |-> 0, path_completion |-> 100,
                  physics_score |-> 95, stability_score |-> 98],
     success |-> TRUE]

\* the detector singleton is built with Config.USE_MOCK
DetectorUsesMock == config.USE_MOCK

\* AgentModule.test_world(asset_path) on an existing asset
test_world(asset, s, f) ==
    IF DetectorUsesMock THEN test_world_mock(asset, s, f) ELSE test_world_real

\* one call of test_world; `fresh` is the state random.seed() leaves
TestWorld(asset, fresh) ==
    /\ asset \in DOMAIN videos
    /\ call' = [op |-> "test_world", input |-> asset,
                result |-> test_world(asset, rng, fresh), done |-> TRUE]
    /\ rng' = IF DetectorUsesMock
              THEN Drawn(fresh, IF call'.result.violations # <<>> THEN 4 ELSE 3)
              ELSE rng
    /\ memo' = Remember(<<"test_world", asset>>, call'.result)
    /\ UNCHANGED <<pipevars, pyhash>>

\* one call of score_video on the existing video, its result noted
ScoreVideoNoted(analysis, fresh) ==
    /\ ScoreVideo(ExistingVideo, analysis, 100, 100, fresh)
    /\ memo' = Remember(<<"score_video", ExistingVideo>>, call'.result)

\* scorer and detector calls of one process, one after the other
NextDet ==
    \/ \E fresh \in 0..(RngStates - 1) : TestWorld(ExistingAsset, fresh)
    \/ \E analysis \in {"import_error", "frames"}, fresh \in 0..(RngStates - 1) :
            ScoreVideoNoted(analysis, fresh)

SpecDet == InitLib /\ [][NextDet]_vars

----------------------------------------------------------------------------
(* A scorer call and a detector call on two threads of one process.  Both    *)
(* use the module-level generator of `random`; a thread can be preempted     *)
(* between any two calls into it.  Each caller takes three steps: it seeds   *)
(* the generator from its path, makes its draws, and reseeds.                *)

Callers == {"scorer", "detector"}

\* what a caller computes from the draws it makes in generator state s
CallerDraws(w, s) ==
    IF w = "scorer"
    THEN WithOverall(score_video_mock_unseeded(ExistingVideo, Drawn(s, RngStates - 1)))
    ELSE MockViolations(s)

\* the number of draws a caller makes
CallerDrawCount(w) == IF w = "scorer" THEN 6 ELSE 16

\* random.seed(seed)
SeedStep(w) ==
    /\ call.op = "concurrent"
    /\ call.result[w].at = "start"
    /\ rng' = IF w = "scorer" THEN Seed(pyhash[ExistingVideo] % 10000)
               ELSE Seed(pyhash[ExistingAsset] % 100)
    /\ call' = [call EXCEPT !.result[w].at = "seeded"]
    /\ UNCHANGED <<pipevars, pyhash, memo>>

\* the draws of a caller, from the generator as it stands
DrawStep(w) ==
    /\ call.op = "concurrent"
    /\ call.result[w].at = "seeded"
    /\ call' = [call EXCEPT !.result[w].at = "drawn",
                            !.result[w].value = CallerDraws(w, rng)]
    /\ rng' = Drawn(rng, CallerDrawCount(w))
    /\ UNCHANGED <<pipevars, pyhash, memo>>

\* random.seed(), and the call returns
ReseedStep(w, fresh) ==
    /\ call.op = "concurrent"
    /\ call.result[w].at = "drawn"
    /\ rng' = fresh
    /\ call' = [call EXCEPT !.result[w].at = "returned",
                            !.done = \A v \in Callers \ {w} :
                                        call.result[v].at = "returned"]
    /\ UNCHANGED <<pipevars, pyhash, memo>>

InitRace ==
    /\ config \in Configs
    /\ config.USE_MOCK
    /\ generation_progress = <<>>
    /\ cache = <<>>
    /\ gendirs = {<<"h">>}
    /\ videos = [f \in LibFiles |-> [kind |-> "real", size |-> BigSize]]
    /\ pc = [t \in Threads |-> "idle"]
    /\ req = [t \in Threads |-> NoRequest]
    /\ loc = [t \in Threads |-> NoLocals]
    /\ resp = [t \in Threads |-> NoResponse]
    /\ hist = [t \in Threads |-> NoHistory]
    /\ progressResp = NoProgressResp
    /\ rng \in 0..(RngStates - 1)
    /\ pyhash \in [LibFiles -> 0..(RngStates - 1)]
    /\ memo = <<>>
    /\ call = [op |-> "concurrent",
               input |-> [scorer |-> ExistingVideo, detector |-> ExistingAsset],
               result |-> [w \in Callers |-> [at |-> "start", value |-> <<>>]],
               done |-> FALSE]

NextRace ==
    \/ \E w \in Callers : SeedStep(w)
    \/ \E w \in Callers : DrawStep(w)
    \/ \E w \in Callers, fresh \in 0..(RngStates - 1) : ReseedStep(w, fresh)

SpecRace == InitRace /\ [][NextRace]_vars

----------------------------------------------------------------------------
(* The prompt reviser.  Strings are sequences of characters *)

UpperChars ==
    <<"A", "B", "C", "D", "E", "F", "G", "H", "I", "J", "K", "L", "M",
      "N", "O", "P", "Q", "R", "S", "T", "U", "V", "W", "X", "Y", "Z">>
LowerChars ==
    <<"a", "b", "c", "d", "e", "f", "g", "h", "i", "j", "k", "l", "m",
      "n", "o", "p", "q", "r", "s", "t", "u", "v", "w", "x", "y", "z">>

\* PromptReviser.revision_rules: violation type -> ordered candidate phrases
revision_rules ==
    [PhysicsViolation |-> <<
        <<"w", "i", "t", "h", " ", "c", "l", "e", "a", "r", " ", "s", "o",
          "l", "i", "d", " ", "b", "o", "u", "n", "d", "a", "r", "i", "e",
          "s">>,
        <<"w", "i", "t", "h", " ", "w", "e", "l", "l", "-", "d", "e", "f",
          "i", "n", "e", "d", " ", "p", "h", "y", "s", "i", "c", "a", "l",
          " ", "s", "t", "r", "u", "c", "t", "u", "r", "e", "s">>,
        <<"e", "n", "s", "u", "r", "i", "n", "g", " ", "p", "r", "o", "p",
          "e", "r", " ", "c", "o", "l", "l", "i", "s", "i", "o", "n", " ",
          "g", "e", "o", "m", "e", "t", "r", "y">>>>,
     BoundaryViolation |-> <<
        <<"i", "n", " ", "a", " ", "c", "o", "n", "t", "a", "i", "n", "e",
          "d", " ", "e", "n", "v", "i", "r", "o", "n", "m", "e", "n", "t">>,
        <<"w", "i", "t", "h", " ", "v", "i", "s", "i", "b", "l", "e", " ",
          "b", "o", "u", "n", "d", "a", "r", "i", "e", "s">>,
        <<"w", "i", "t", "h", "i", "n", " ", "a", " ", "d", "e", "f", "i",
          "n", "e", "d", " ", "s", "p", "a", "c", "e">>>>,
     ObjectPersistence |-> <<
        <<"w", "i", "t", "h", " ", "c", "o", "n", "s", "i", "s", "t", "e",
          "n", "t", " ", "o", "b", "j", "e", "c", "t", " ", "a", "p", "p",
          "e", "a", "r", "a", "n", "c", "e">>,
        <<"m", "a", "i", "n", "t", "a", "i", "n", "i", "n", "g", " ", "v",
          "i", "s", "u", "a", "l", " ", "c", "o", "n", "t", "i", "n", "u",
          "i", "t", "y">>,
        <<"w", "i", "t", "h", " ", "s", "t", "a", "b", "l", "e", " ", "o",
          "b", "j", "e", "c", "t", " ", "i", "d", "e", "n", "t", "i", "t",
          "y">>>>,
     DepthInconsistency |-> <<
        <<"w", "i", "t", "h", " ", "a", "c", "c", "u", "r", "a", "t", "e",
          " ", "d", "e", "p", "t", "h", " ", "p", "e", "r", "c", "e", "p",
          "t", "i", "o", "n">>,
        <<"e", "n", "s", "u", "r", "i", "n", "g", " ", "p", "r", "o", "p",
          "e", "r", " ", "3", "D", " ", "g", "e", "o", "m", "e", "t", "r",
          "y">>,
        <<"w", "i", "t", "h", " ", "c", "o", "n", "s", "i", "s", "t", "e",
          "n", "t", " ", "s", "p", "a", "t", "i", "a", "l", " ", "r", "e",
          "l", "a", "t", "i", "o", "n", "s", "h", "i", "p", "s">>>>,
     LowVisualQuality |-> <<
        <<"i", "n", " ", "h", "i", "g", "h", " ", "q", "u", "a", "l", "i",
          "t", "y">>,
        <<"w", "i", "t", "h", " ", "s", "h", "a", "r", "p", " ", "d", "e",
          "t", "a", "i", "l", "s">>,
        <<"c", "i", "n", "e", "m", "a", "t", "i", "c", " ", "l", "i", "g",
          "h", "t", "i", "n", "g">>>>,
     MotionIssues |-> <<
        <<"w", "i", "t", "h", " ", "s", "m", "o", "o", "t", "h", " ", "m",
          "o", "t", "i", "o", "n">>,
        <<"r", "e", "a", "l", "i", "s", "t", "i", "c", " ", "m", "o", "v",
          "e", "m", "e", "n", "t">>,
        <<"n", "a", "t", "u", "r", "a", "l", " ", "a", "n", "i", "m", "a",
          "t", "i", "o", "n">>>>]

\* quality_terms of _apply_general_enhancements
quality_terms ==
    <<<<"h", "i", "g", "h", " ", "q", "u", "a", "l", "i", "t", "y">>,
      <<"c", "i", "n", "e", "m", "a", "t", "i", "c">>,
      <<"4", "k">>,
      <<"d", "e", "t", "a", "i", "l", "e", "d">>>>

cinematic_shot ==
    <<",", " ", "c", "i", "n", "e", "m", "a", "t", "i", "c", " ", "s", "h",
      "o", "t">>

\* prompts handed to the reviser
PromptPlain == <<"a", " ", "r", "o", "b", "o", "t">>
PromptQualityTerm == <<"4", "K", " ", "c", "i", "t", "y", " ">>
PromptEmpty == <<>>
PromptHasQualityPhrase ==
    <<"H", "a", "l", "l", " ", "I", "n", " ", "H", "i", "g", "h", " ", "Q",
      "u", "a", "l", "i", "t", "y", ";">>
\* n one-letter words separated by blanks
WordsOfA(n) == [i \in 1..(2 * n - 1) |-> IF i % 2 = 1 THEN "a" ELSE " "]

RevisePrompts ==
    {PromptPlain, PromptQualityTerm, PromptEmpty, PromptHasQualityPhrase,
     \* the first PhysicsViolation candidate in capitals, blanks around
     <<" ", "A", " ", "r", "o", "o", "m", " ", "W", "I", "T", "H", " ", "C",
       "L", "E", "A", "R", " ", "S", "O", "L", "I", "D", " ", "B", "O", "U",
       "N", "D", "A", "R", "I", "E", "S", ".", " ">>,
     \* the first two PhysicsViolation candidates
     <<"P", "i", "t", " ", "w", "i", "t", "h", " ", "c", "l", "e", "a", "r",
       " ", "s", "o", "l", "i", "d", " ", "b", "o", "u", "n", "d", "a", "r",
       "i", "e", "s", ",", " ", "w", "i", "t", "h", " ", "w", "e", "l", "l",
       "-", "d", "e", "f", "i", "n", "e", "d", " ", "p", "h", "y", "s", "i",
       "c", "a", "l", " ", "s", "t", "r", "u", "c", "t", "u", "r", "e", "s">>,
     WordsOfA(MaxEnhanceWords - 1), WordsOfA(MaxEnhanceWords),
     \* prompts that end in '..', ' .' and '!'
     <<"a", ".", ".">>, <<"a", " ", ".">>, <<"a", "!">>,
     \* a quality keyword and every MotionIssues phrase, ending in '..'
     <<"4", "k", " ">> \o revision_rules.MotionIssues[1] \o <<",", " ">>
        \o revision_rules.MotionIssues[2] \o <<",", " ">>
        \o revision_rules.MotionIssues[3] \o <<".", ".">>}

\* violation types the detector reports or a caller may pass
ViolationKinds == {"PhysicsViolation", "BoundaryViolation", "Unknown"}

\* violation lists of up to MaxViolations entries
ViolationLists ==
    UNION { [1..n -> [type : ViolationKinds]] : n \in 0..MaxViolations }

\* the optional Score Set: absent, or with one of the two metrics below its
\* threshold
NoScores == [given |-> FALSE, visual_quality |-> 100, motion_smoothness |-> 100]
ScoreInputs ==
    {NoScores,
     [given |-> TRUE, visual_quality |-> MIN_IDENTITY_PERSISTENCE - 1,
      motion_smoothness |-> MIN_PATH_REALISM],
     [given |-> TRUE, visual_quality |-> MIN_IDENTITY_PERSISTENCE,
      motion_smoothness |-> MIN_PATH_REALISM - 1]}

\* str.lower() of one character
LowerChar(c) ==
    IF \E k \in 1..Len(UpperChars) : UpperChars[k] = c
    THEN LowerChars[CHOOSE k \in 1..Len(UpperChars) : UpperChars[k] = c]
    ELSE c

\* str.upper() of one character
UpperChar(c) ==
    IF \E k \in 1..Len(LowerChars) : LowerChars[k] = c
    THEN UpperChars[CHOOSE k \in 1..Len(LowerChars) : LowerChars[k] = c]
    ELSE c

\* str.lower()
lower(s) == [i \in 1..Len(s) |-> LowerChar(s[i])]

\* sub in s
Contains(sub, s) ==
    \E i \in 0..(Len(s) - Len(sub)) : SubSeq(s, i + 1, i + Len(sub)) = sub

\* len(s.split())
WordCount(s) ==
    Cardinality({ i \in 1..Len(s) : s[i] # " " /\ (i = 1 \/ s[i - 1] = " ") })

\* if prompt and not prompt[0].isupper(): prompt[0].upper() + prompt[1:]
Capitalize(s) ==
    IF s = <<>> THEN s ELSE <<UpperChar(s[1])>> \o Tail(s)

\* list(dict.fromkeys(items)): the first occurrence of each item, in order
Deduplicate(items) ==
    LET keep == { i \in 1..Len(items) : \A j \in 1..(i - 1) : items[j] # items[i] }
        F[i \in 0..Len(items)] ==
            IF i = 0 THEN <<>>
            ELSE IF i \in keep THEN Append(F[i - 1], items[i]) ELSE F[i - 1]
    IN  F[Len(items)]

\* lines 81-89: the first rule of each known violation type, unless the
\* trimmed prompt already holds it
ViolationImprovements(revised, violations) ==
    LET low == lower(revised)
        F[i \in 0..Len(violations)] ==
            IF i = 0 THEN <<>>
            ELSE IF /\ violations[i].type \in DOMAIN revision_rules
                    /\ ~Contains(revision_rules[violations[i].type][1], low)
                 THEN Append(F[i - 1], revision_rules[violations[i].type][1])
                 ELSE F[i - 1]
    IN  F[Len(violations)]

\* lines 92-97: the quality and motion phrase sets for low scores
ScoreImprovements(scores) ==
    (IF scores.given /\ scores.visual_quality < MIN_IDENTITY_PERSISTENCE
     THEN revision_rules.LowVisualQuality ELSE <<>>)
    \o (IF scores.given /\ scores.motion_smoothness < MIN_PATH_REALISM
        THEN revision_rules.MotionIssues ELSE <<>>)

\* prompt.rstrip(), then a trailing '.', ',' or ';' removed
TrimPunctuation(prompt) ==
    LET p == RStrip(prompt) IN
    IF p # <<>> /\ p[Len(p)] \in {".", ",", ";"}
    THEN SubSeq(p, 1, Len(p) - 1) ELSE p

\* a faulty _apply_improvements that appends every phrase it is given
apply_improvements_unchecked(prompt, improvements) ==
    LET F[i \in 0..Len(improvements)] ==
            IF i = 0 THEN TrimPunctuation(prompt)
            ELSE F[i - 1] \o <<",", " ">> \o improvements[i]
    IN  F[Len(improvements)]

\* PromptReviser._apply_improvements
apply_improvements(prompt, improvements) ==
    LET F[i \in 0..Len(improvements)] ==
            IF i = 0 THEN TrimPunctuation(prompt)
            ELSE IF ~Contains(lower(improvements[i]), lower(F[i - 1]))
                 THEN F[i - 1] \o <<",", " ">> \o improvements[i]
                 ELSE F[i - 1]
    IN  F[Len(improvements)]

\* any(term in prompt.lower() for term in quality_terms)
has_quality(prompt) ==
    \E k \in 1..Len(quality_terms) : Contains(quality_terms[k], lower(prompt))

\* the condition of the general enhancement
Enhances(prompt) == ~has_quality(prompt) /\ WordCount(prompt) < MaxEnhanceWords

\* a faulty general pass that appends whatever the prompt holds
apply_general_enhancements_always(prompt) ==
    Capitalize(prompt \o cinematic_shot)

\* PromptReviser._apply_general_enhancements
apply_general_enhancements(prompt) ==
    Capitalize(IF Enhances(prompt) THEN prompt \o cinematic_shot ELSE prompt)

\* the working prompt after lines 75-104
WorkingPrompt(original_prompt, violations, scores) ==
    LET revised == Strip(original_prompt)
        improvements ==
            Deduplicate(ViolationImprovements(revised, violations)
                        \o ScoreImprovements(scores))
    IN  IF improvements # <<>> THEN apply_improvements(revised, improvements)
        ELSE revised

\* PromptReviser.revise_prompt
revise_prompt(original_prompt, violations, scores) ==
    apply_general_enhancements(WorkingPrompt(original_prompt, violations, scores))

\* one call of revise_prompt on the input in hand
Revise ==
    /\ call.op = "revise_prompt"
    /\ ~call.done
    /\ call' = [call EXCEPT
            !.result = revise_prompt(call.input.prompt, call.input.violations,
                                     call.input.scores),
            !.done = TRUE]
    /\ UNCHANGED <<pipevars, rng, pyhash, memo>>

InitRevise ==
    /\ config \in Configs
    /\ PipelineIdle
    /\ rng = 0
    /\ pyhash = <<>>
    /\ memo = <<>>
    /\ \E p \in RevisePrompts, v \in ViolationLists, sc \in ScoreInputs :
            call = [op |-> "revise_prompt",
                    input |-> [prompt |-> p, violations |-> v, scores |-> sc],
                    result |-> <<>>, done |-> FALSE]

SpecRevise == InitRevise /\ [][Revise]_vars

----------------------------------------------------------------------------
(* The run-agent operation *)

\* an asset path with no file behind it
\* lines 441-442: the explanation when no violation was found
NoIssuesExplanation ==
    [text |-> "No issues detected.", issues |-> 0, lines |-> <<>>,
     original |-> <<>>, revised |-> <<>>]

\* violation_types = [v.get('type', 'Unknown') for v in violations]
TypesOf(violations) == [i \in 1..Len(violations) |-> violations[i].type]

\* a faulty explanation that reports the number of distinct types as the total
\* and one line per violation
create_revision_explanation_per_violation(original_prompt, revised_prompt, violations) ==
    [text |-> "Revised prompt to address",
     issues |-> Cardinality({ violations[i].type : i \in 1..Len(violations) }),
     lines |-> [k \in 1..Len(violations) |->
                    [type |-> violations[k].type, count |-> 1]],
     original |-> original_prompt, revised |-> revised_prompt]

\* PromptReviser.create_revision_explanation: the parts of the text, in order
create_revision_explanation(original_prompt, revised_prompt, violations) ==
    IF violations = <<>>
    THEN [text |-> "No major issues detected. Prompt slightly enhanced for quality.",
          issues |-> 0, lines |-> <<>>, original |-> <<>>, revised |-> <<>>]
    ELSE LET violation_types == TypesOf(violations)
             unique_types == Deduplicate(violation_types)
         IN  [text |-> "Revised prompt to address",
              issues |-> Len(violations),
              lines |-> [k \in 1..Len(unique_types) |->
                    [type |-> unique_types[k],
                     count |-> Cardinality({ i \in 1..Len(violation_types) :
                                    violation_types[i] = unique_types[k] })]],
              original |-> original_prompt, revised |-> revised_prompt]

\* one call of create_revision_explanation on the input in hand
Explain ==
    /\ call.op = "create_revision_explanation"
    /\ ~call.done
    /\ call' = [call EXCEPT
            !.result = create_revision_explanation(call.input.original,
                            call.input.revised, call.input.violations),
            !.done = TRUE]
    /\ UNCHANGED <<pipevars, rng, pyhash, memo>>

\* the explanation is asked for a prompt, a revision of it and a violation list
InitExplain ==
    /\ config \in Configs
    /\ PipelineIdle
    /\ rng = 0
    /\ pyhash = <<>>
    /\ memo = <<>>
    /\ \E p \in {PromptPlain, PromptQualityTerm}, v \in ViolationLists,
          sc \in ScoreInputs :
            call = [op |-> "create_revision_explanation",
                    input |-> [original |-> p,
                               revised |-> revise_prompt(p, v, sc),
                               violations |-> v],
                    result |-> <<>>, done |-> FALSE]

SpecExplain == InitExplain /\ [][Explain]_vars

\* a faulty revision step that calls the reviser whatever the detector found
AgentRevisionAlways(original_prompt, violations) ==
    LET revised == revise_prompt(original_prompt, violations, NoScores) IN
    [revised_prompt |-> revised,
     explanation |-> create_revision_explanation(original_prompt, revised,
                                                 violations),
     reviser_invoked |-> TRUE]

\* lines 440-454: the reviser is called only for a non-empty violation list;
\* reviser_invoked records whether line 445 ran
AgentRevision(original_prompt, violations) ==
    IF violations # <<>>
    THEN LET revised == revise_prompt(original_prompt, violations, NoScores) IN
         [revised_prompt |-> revised,
          explanation |-> create_revision_explanation(original_prompt, revised,
                                                      violations),
          reviser_invoked |-> TRUE]
    ELSE [revised_prompt |-> original_prompt,
          explanation |-> NoIssuesExplanation,
          reviser_invoked |-> FALSE]

\* the response of run_agent_test in generator state s
run_agent_test(asset_path_str, original_prompt, s, f) ==
    IF asset_path_str = <<>>
    THEN [code |-> 400, success |-> "absent", reviser_invoked |-> FALSE,
          body |-> <<>>]
    ELSE IF asset_path_str \notin DOMAIN videos
    THEN [code |-> 404, success |-> "absent", reviser_invoked |-> FALSE,
          body |-> <<>>]
    ELSE LET test_results == test_world(asset_path_str, s, f)
             revision == AgentRevision(original_prompt, test_results.violations)
         IN  [code |-> 200, success |-> "true",
              reviser_invoked |-> revision.reviser_invoked,
              body |-> [violations |-> test_results.violations,
                        metrics |-> test_results.metrics,
                        test_duration |-> AGENT_SIMULATION_DURATION,
                        revised_prompt |-> revision.revised_prompt,
                        explanation |-> revision.explanation]]

\* POST /api/run_agent; `fresh` is the state random.seed() leaves
RunAgent(asset_path_str, original_prompt, fresh) ==
    /\ call' = [op |-> "run_agent",
                input |-> [asset_path |-> asset_path_str,
                           prompt |-> original_prompt],
                result |-> run_agent_test(asset_path_str, original_prompt,
                                          rng, fresh),
                done |-> TRUE]
    /\ rng' = IF call'.result.code = 200 /\ DetectorUsesMock
              THEN Drawn(fresh, IF call'.result.body.violations # <<>>
                                THEN 4 ELSE 3)
              ELSE rng
    /\ UNCHANGED <<pipevars, pyhash, memo>>

NextAgent ==
    \E a \in {<<>>, ExistingAsset, <<"gone">>},
       p \in {PromptEmpty, PromptPlain, PromptQualityTerm},
       fresh \in 0..(RngStates - 1) :
        RunAgent(a, p, fresh)

SpecAgent == InitLib /\ [][NextAgent]_vars

----------------------------------------------------------------------------
(* Claims *)

\* thread t took the step
Stepped(t) ==
    \/ pc'[t] # pc[t]
    \/ loc'[t] # loc[t]
    \/ hist'[t] # hist[t]
    \/ resp'[t] # resp[t]
    \/ req'[t] # req[t]

\* the order queued -> in_progress -> {completed, failed} of one run's writes
StatusOrder(a, b) ==
    \/ a = "none" /\ b = "queued"
    \/ a = "queued" /\ b = "in_progress"
    \/ a = "in_progress" /\ b \in {"in_progress", "completed", "failed"}

\* C1: within one generate run the status written to the Progress State only
\* moves queued -> in_progress -> completed or failed, and a run that has
\* written completed or failed does not change the status again.
C1_RunStatusOrder ==
    [][\A t \in Threads :
        (pc[t] # "idle" /\ hist'[t].runStatus # hist[t].runStatus)
            => StatusOrder(hist[t].runStatus, hist'[t].runStatus)]_vars

\* the cache holds a readable record for h whose take files all exist
ValidRecord(h) ==
    /\ h \in DOMAIN cache
    /\ ParseOK(cache[h])
    /\ \A k \in 1..Len(Parse(cache[h]).takes) :
            Parse(cache[h]).takes[k].video_path \in DOMAIN videos

\* C2: a simulated-mode request never reads the cache, never writes it (the
\* cache is the same after each of its steps) and its response is never
\* tagged cached.
C2_SimulatedLeavesCache ==
    /\ [](\A t \in Threads :
            ~req[t].use_real_api =>
                /\ ~hist[t].cacheRead
                /\ ~hist[t].stored
                /\ ~resp[t].cached)
    /\ [][\A t \in Threads :
            (pc[t] # "idle" /\ ~req[t].use_real_api /\ Stepped(t))
                => cache' = cache]_vars

\* a simulated request has been answered while a valid record for its prompt
\* is in the cache
C2_Witness ==
    \E t \in Threads :
        /\ pc[t] = "idle"
        /\ req[t].prompt # <<>>
        /\ ~req[t].use_real_api
        /\ resp[t].code = 200
        /\ ValidRecord(HashOf(t))

\* some take file of the stored record for h is missing
SomeTakeMissing(h) ==
    \E k \in 1..Len(Parse(cache[h]).takes) :
        Parse(cache[h]).takes[k].video_path \notin DOMAIN videos

\* C3: a real-mode request that finds a readable record with a missing take
\* file is a miss: nothing is returned at the lookup, the run goes on to
\* generate every take itself, its response is not tagged cached, and it does
\* not write the record before its own store.
C3_MissingArtifactIsMiss ==
    /\ [][\A t \in Threads :
            (/\ pc[t] = "lookup" /\ Stepped(t)
             /\ req[t].use_real_api
             /\ HashOf(t) \in DOMAIN cache
             /\ ParseOK(cache[HashOf(t)])
             /\ SomeTakeMissing(HashOf(t)))
                => /\ pc'[t] = "accept"
                   /\ resp'[t] = NoResponse
                   /\ hist'[t].lookup = "invalid"]_vars
    /\ [](\A t \in Threads :
            hist[t].lookup = "invalid" =>
                /\ ~resp[t].cached
                /\ (pc[t] = "idle" /\ resp[t].code = 200) =>
                        /\ hist[t].generated = req[t].num_takes
                        /\ Len(resp[t].body.takes) = req[t].num_takes)
    /\ [][\A t \in Threads :
            (/\ hist[t].lookup = "invalid" /\ Stepped(t)
             /\ pc[t] \notin {"idle", "store_open", "store_write"})
                => cache' = cache]_vars

\* a lookup has just missed on a record of which one take file exists and
\* another is gone
C3_Witness ==
    \E t \in Threads :
        /\ pc[t] = "accept"
        /\ hist[t].lookup = "invalid"
        /\ SomeTakeMissing(HashOf(t))
        /\ \E k \in 1..Len(Parse(cache[HashOf(t)]).takes) :
                Parse(cache[HashOf(t)]).takes[k].video_path \in DOMAIN videos

\* C4: a real-mode request that finds a readable record whose take files all
\* exist answers with that record, cached=true and success=true, in the lookup
\* step itself: no generation, no scoring, no write of the cache, the files
\* or the Progress State.
C4_ValidRecordIsHit ==
    /\ [][\A t \in Threads :
            (/\ pc[t] = "lookup" /\ Stepped(t)
             /\ req[t].use_real_api
             /\ ValidRecord(HashOf(t)))
                => /\ pc'[t] = "idle"
                   /\ resp'[t].code = 200
                   /\ resp'[t].cached
                   /\ resp'[t].success = "true"
                   /\ resp'[t].body = Parse(cache[HashOf(t)])
                   /\ cache' = cache
                   /\ videos' = videos]_vars
    /\ [](\A t \in Threads :
            resp[t].cached =>
                /\ hist[t].lookup = "hit"
                /\ hist[t].generated = 0
                /\ hist[t].scored = 0
                /\ ~hist[t].stored)

\* a request has been answered from the cache with a stored record of
\* MaxTakes takes
C4_Witness ==
    \E t \in Threads :
        /\ pc[t] = "idle"
        /\ resp[t].cached
        /\ Len(resp[t].body.takes) = MaxTakes

\* C5: once a generate request has been served from the cache (and no other
\* run is in flight), the progress query for its hash reports completed.
C5_CacheHitReportsCompleted ==
    \A t \in Threads :
        (/\ pc[t] = "idle"
         /\ resp[t].cached
         /\ \A u \in Threads : pc[u] = "idle")
            => get_progress(HashOf(t)).body.status = "completed"

\* C6: every record in the cache has mode REAL and no take of it was produced
\* by the mock generator.
C6_CacheHoldsOnlyRealTakes ==
    \A h \in DOMAIN cache :
        ParseOK(cache[h]) =>
            /\ Parse(cache[h]).mode = "REAL"
            /\ \A k \in 1..Len(Parse(cache[h]).takes) :
                    Parse(cache[h]).takes[k].origin = "real"

\* C7: a real-mode run in which the bounded wait expired ends failed: it
\* answers with a failure, returns and caches no take list, and leaves the
\* Progress State failed.
C7_TimeoutFailsTheRun ==
    \A t \in Threads :
        (req[t].use_real_api /\ hist[t].timedOut) =>
            /\ pc[t] \notin {"score", "complete", "store_open", "store_write"}
            /\ pc[t] = "idle" =>
                    /\ resp[t].success = "false"
                    /\ ~hist[t].stored
                    /\ get_progress(HashOf(t)).body.status = "failed"

\* the struct an unrecovered exception leaves in the Progress State
IsFailureStruct(r) ==
    /\ r.status = "failed"
    /\ r.progress = 0
    /\ r.message = "Generation failed: <error>"

\* thread t is between its acceptance and its response, for hash h
Running(t, h) ==
    /\ HashOf(t) = h
    /\ pc[t] \in {"provision", "gen", "poll", "score", "complete"}

\* C8, as stated: after a run has failed, the failure struct of its hash is
\* replaced only by the queued struct of a newly accepted request.
C8_FailedUntilNewRequest ==
    [][\A h \in DOMAIN generation_progress :
        (IsFailureStruct(generation_progress[h])
            /\ generation_progress'[h] # generation_progress[h])
            => /\ generation_progress'[h].status = "queued"
               /\ generation_progress'[h].progress = 0]_vars

\* C8 as amended: a run that raises leaves {failed, 0, failure message} for its
\* hash, and that struct is changed only by a write of a generate run for the
\* same hash: the acceptance of a request, or a later write of a run that was
\* in flight when the failure was recorded.
C8_FailedUntilAnotherRunWrites ==
    /\ [][\A t \in Threads :
            (pc[t] = "gen" /\ ~req[t].takes_is_int /\ Stepped(t))
                => /\ pc'[t] = "idle"
                   /\ resp'[t].code = 500
                   /\ IsFailureStruct(generation_progress'[HashOf(t)])]_vars
    /\ [][\A h \in DOMAIN generation_progress :
            (IsFailureStruct(generation_progress[h])
                /\ generation_progress'[h] # generation_progress[h])
                => \E t \in Threads :
                        /\ Stepped(t)
                        /\ HashOf(t) = h
                        /\ pc[t] = "accept" \/ Running(t, h)]_vars

\* a run has failed and left the failure struct while another run for the
\* same hash is in flight
C8_Witness ==
    \E t, u \in Threads :
        /\ t # u
        /\ pc[t] = "idle"
        /\ resp[t].code = 500
        /\ Running(u, HashOf(t))
        /\ IsFailureStruct(generation_progress[HashOf(t)])

\* the structs the handler and its progress callback write
WholeStructs ==
    {ProgressQueued, ProgressStarting, ProgressScoring, ProgressCompleted,
     ProgressFailed}
    \cup UNION { { ProgressFromJob(st, p) : p \in JobProgress(st) } :
                    st \in {"queued", "in_progress", "completed", "failed"} }

\* C9: every value of the Progress State map, and every value a progress
\* query returns, is one whole struct of a single update; an update replaces
\* the entry of one hash by the writer's struct and leaves the others as they
\* are, so the value of a hash is that of its last writer.
C9_WholeStructReplaced ==
    /\ [](/\ \A h \in DOMAIN generation_progress :
                generation_progress[h] \in WholeStructs
          /\ progressResp.code = 200 => progressResp.body \in WholeStructs)
    /\ [][generation_progress' # generation_progress =>
            \E t \in Threads, r \in WholeStructs :
                /\ Stepped(t)
                /\ generation_progress' =
                    [k \in (DOMAIN generation_progress) \cup {HashOf(t)} |->
                        IF k = HashOf(t) THEN r ELSE generation_progress[k]]]_vars

\* a progress query has been answered with a struct of the progress callback
\* while two runs for the hash are in flight
C9_Witness ==
    /\ progressResp.code = 200
    /\ progressResp.body.message = "Generating video: <progress>%"
    /\ \E h \in Hashes : \A t \in Threads : Running(t, h)

\* C10: no lookup reads a cache file that is not one complete record.
C10_NoTornRecordRead ==
    \A t \in Threads : hist[t].lookup # "unreadable"

\* the ranking has returned
Ranked == call.op = "rank" /\ call.done

\* C11: the ranked list is a permutation of the input (every take once, its
\* fields unchanged), in descending order of overall score, takes of equal
\* score in the order of their take index, with the ranks 1..N in list order.
C11_RankingStableDescending ==
    Ranked =>
        LET in == call.input
            out == call.result
        IN  /\ Len(out) = Len(in)
            /\ \A k \in 1..Len(in) : \E j \in 1..Len(out) :
                    /\ out[j].take_id = k
                    /\ out[j].overall = in[k].overall
                    /\ out[j].video_path = in[k].video_path
                    /\ out[j].video_url = in[k].video_url
            /\ \A j \in 1..Len(out) : out[j].rank = j
            /\ \A i, j \in 1..Len(out) :
                    i < j =>
                        \/ out[i].overall > out[j].overall
                        \/ /\ out[i].overall = out[j].overall
                           /\ out[i].take_id < out[j].take_id

\* a list of MaxRank takes has been ranked in which two takes of equal score
\* moved ahead of an earlier take of lower score
C11_Witness ==
    /\ Ranked
    /\ Len(call.result) = MaxRank
    /\ \E i \in 1..(MaxRank - 1) :
            /\ call.result[i].overall = call.result[i + 1].overall
            /\ call.result[i].take_id > call.result[MaxRank].take_id

\* score_video has returned
Scored == call.op = "score_video" /\ call.done

\* C12: every Score Set score_video returns has the six metrics and overall,
\* each in [0,1], and overall is the weighted sum of the six metrics.
C12_ScoreSetWellFormed ==
    Scored =>
        /\ DOMAIN call.result = MetricKeys \cup {"overall"}
        /\ \A k \in MetricKeys : call.result[k] \in 0..100
        /\ call.result.overall \in 0..10000
        /\ call.result.overall = calculate_overall_score(call.result)

\* C13: scoring a file that does not exist returns the default Score Set, all
\* six metrics and overall 0.5, and leaves the generator as it was.
C13_MissingFileDefaultScores ==
    /\ [](Scored /\ call.input \notin DOMAIN videos =>
            /\ \A k \in MetricKeys : call.result[k] = 50
            /\ call.result.overall = 5000)
    /\ [][(call'.op = "score_video" /\ call'.input \notin DOMAIN videos)
            => rng' = rng]_vars

\* the missing file has been scored by a scorer in real mode
C13_Witness ==
    /\ Scored
    /\ call.input = MissingVideo
    /\ ~ScorerUsesMock

\* the call in hand has returned and was made before
Repeated(op) ==
    /\ call.op = op
    /\ call.done
    /\ <<op, call.input>> \in DOMAIN memo

\* C18: every detector call on an asset returns the violations (their number,
\* and the type, severity, location and timestamp of each) that the first call
\* on that asset returned, whatever scorer or detector calls ran in between.
C18_DetectorRepeats ==
    Repeated("test_world") =>
        /\ Len(call.result.violations)
            = Len(memo[<<"test_world", call.input>>].first.violations)
        /\ call.result.violations
            = memo[<<"test_world", call.input>>].first.violations

\* the mock detector has reported violations a second time, after a scorer
\* call ran in between
C18_Witness ==
    /\ Repeated("test_world")
    /\ DetectorUsesMock
    /\ call.result.violations # <<>>
    /\ memo[<<"test_world", call.input>>].calls = 2
    /\ memo[<<"test_world", call.input>>].between

\* C19: in simulated mode every scoring of an existing video returns the Score
\* Set the first scoring of that video returned, whatever scorer or detector
\* calls ran in between.
C19_MockScoresRepeat ==
    (Repeated("score_video") /\ ScorerUsesMock /\ call.input \in DOMAIN videos)
        => call.result = memo[<<"score_video", call.input>>].first

\* the mock scorer has scored the video a second time, after a detector call
\* ran in between
C19_Witness ==
    /\ Repeated("score_video")
    /\ ScorerUsesMock
    /\ memo[<<"score_video", call.input>>].calls = 2
    /\ memo[<<"score_video", call.input>>].between

\* revise_prompt has returned
Revised == call.op = "revise_prompt" /\ call.done

\* the number of places where sub occurs in s
Count(sub, s) ==
    Cardinality({ i \in 0..(Len(s) - Len(sub)) :
                    SubSeq(s, i + 1, i + Len(sub)) = sub })

\* every augmentation phrase of the rule table
AllPhrases ==
    UNION { { revision_rules[t][k] : k \in 1..Len(revision_rules[t]) } :
            t \in DOMAIN revision_rules }

\* C14: for the first violation of a list, when its type has rules, the first
\* candidate of that type that the trimmed prompt does not hold (in any letter
\* case) is part of the revised prompt; so a prompt that holds the first
\* candidate and not the second gets the second one.
C14_FirstAbsentCandidateAppended ==
    (Revised /\ call.input.violations # <<>>
        /\ call.input.violations[1].type \in DOMAIN revision_rules) =>
        LET rules == revision_rules[call.input.violations[1].type]
            low == lower(Strip(call.input.prompt))
            absent == { k \in 1..Len(rules) : ~Contains(rules[k], low) }
        IN  absent # {} =>
                Contains(rules[CHOOSE k \in absent : \A j \in absent : k <= j],
                         lower(call.result))

\* C15: a revised prompt holds every augmentation phrase, letter case aside,
\* as often as the original did when the original held it, and at most once
\* otherwise, whatever the violations and scores.
C15_NoPhraseDuplicated ==
    Revised =>
        \A p \in AllPhrases :
            LET before == Count(lower(p), lower(call.input.prompt))
                after == Count(lower(p), lower(call.result))
            IN  IF before > 0 THEN after = before ELSE after <= 1

\* a prompt that holds a quality phrase in capitals was revised for a low
\* visual quality and for two violations of one type
C15_Witness ==
    /\ Revised
    /\ call.input.prompt = PromptHasQualityPhrase
    /\ call.input.scores.given
    /\ call.input.scores.visual_quality < MIN_IDENTITY_PERSISTENCE
    /\ Len(call.input.violations) = 2
    /\ call.input.violations[1].type = "PhysicsViolation"
    /\ call.input.violations[2].type = "PhysicsViolation"
    /\ Contains(revision_rules.LowVisualQuality[2], call.result)

\* the general pass appended ', cinematic shot' to the working prompt exactly
\* when the working prompt has no quality keyword and fewer than 30 words, and
\* with no violations and no scores the working prompt is the trimmed original
GeneralPassAsSpecified ==
    LET w == WorkingPrompt(call.input.prompt, call.input.violations,
                           call.input.scores)
        plain == ~(\E k \in 1..Len(quality_terms) :
                        Contains(quality_terms[k], lower(w)))
        short == WordCount(w) < MaxEnhanceWords
    IN  /\ call.result =
                Capitalize(IF plain /\ short THEN w \o cinematic_shot ELSE w)
        /\ (call.input.violations = <<>> /\ ~call.input.scores.given)
                => w = Strip(call.input.prompt)

\* C16 as stated: the general pass is as specified, and with no violations and
\* no scores the result is never shorter than the original prompt.
C16_NeverShorterThanOriginal ==
    Revised =>
        /\ GeneralPassAsSpecified
        /\ (call.input.violations = <<>> /\ ~call.input.scores.given)
                => Len(call.result) >= Len(call.input.prompt)

\* C16 amended: the general pass is as specified, and with no violations and
\* no scores the result is never shorter than the trimmed original prompt.
C16_NeverShorterThanTrimmed ==
    Revised =>
        /\ GeneralPassAsSpecified
        /\ (call.input.violations = <<>> /\ ~call.input.scores.given)
                => Len(call.result) >= Len(Strip(call.input.prompt))

\* a prompt with a quality keyword and a trailing blank came back without the
\* blank and without the cinematic suffix
C16_Witness ==
    /\ Revised
    /\ call.input.violations = <<>>
    /\ ~call.input.scores.given
    /\ call.input.prompt = PromptQualityTerm
    /\ call.result = Strip(PromptQualityTerm)
    /\ Len(call.result) < Len(call.input.prompt)

\* run_agent_test has answered 200
AgentAnswered ==
    call.op = "run_agent" /\ call.done /\ call.result.code = 200

\* C17: a run-agent response is built with a call of the reviser exactly when
\* the detector reported violations; with none, the explanation is the fixed
\* 'No issues detected.' and the revised prompt is the request's prompt,
\* character for character.
C17_ReviserOnlyOnViolations ==
    AgentAnswered =>
        /\ call.result.reviser_invoked <=> call.result.body.violations # <<>>
        /\ call.result.body.violations = <<>> =>
                /\ call.result.body.explanation = NoIssuesExplanation
                /\ call.result.body.revised_prompt = call.input.prompt
        /\ call.result.body.violations # <<>> =>
                call.result.body.revised_prompt
                    = revise_prompt(call.input.prompt,
                                    call.result.body.violations, NoScores)

\* a prompt the reviser would have changed came back untouched because the
\* detector found nothing
C17_Witness ==
    /\ AgentAnswered
    /\ call.result.body.violations = <<>>
    /\ call.input.prompt = PromptQualityTerm
    /\ revise_prompt(call.input.prompt, <<>>, NoScores) # call.input.prompt
    /\ call.result.body.revised_prompt = PromptQualityTerm

\* C20: every response of an operation carries a success flag, whatever its
\* status code.
C20_EveryResponseHasSuccess ==
    \A t \in Threads : resp[t].code # 0 => resp[t].success # "absent"

\* generate_n_takes has returned to the handler of thread t
Returned(t) == pc[t] = "score"

\* C21: when generate_n_takes returns, its list has exactly num_takes paths,
\* the i-th is take i of the output directory, one generator produced each,
\* and a file stands at every path.
C21_ReturnedPathsExist ==
    \A t \in Threads :
        Returned(t) =>
            /\ Len(video_paths(t)) = req[t].num_takes
            /\ Len(loc[t].origin) = req[t].num_takes
            /\ \A k \in 1..Len(video_paths(t)) :
                    /\ video_paths(t)[k] = VideoPath(HashOf(t), k)
                    /\ video_paths(t)[k] \in DOMAIN videos

\* a real request for the longest list returned with one downloaded take and
\* one take of the fallback generator
C21_Witness ==
    \E t \in Threads :
        /\ Returned(t)
        /\ req[t].num_takes = MaxTakes
        /\ \E j, k \in 1..MaxTakes :
                loc[t].origin[j] = "real" /\ loc[t].origin[k] = "mock"

\* create_revision_explanation has returned
Explained == call.op = "create_revision_explanation" /\ call.done

\* the place of the first violation of type ty in the list v
FirstSeen(ty, v) == CHOOSE i \in 1..Len(v) : v[i].type = ty /\ \A j \in 1..(i - 1) : v[j].type # ty

\* C22: for a non-empty violation list the explanation gives the number of
\* violations, then one line for each distinct type, in the order in which
\* the types first occur, with the number of violations of that type, then
\* the original and the revised prompt as they were passed.
C22_ExplanationCountsByType ==
    (Explained /\ call.input.violations # <<>>) =>
        LET v == call.input.violations
            e == call.result
        IN  /\ e.issues = Len(v)
            /\ { e.lines[k].type : k \in 1..Len(e.lines) }
                    = { v[i].type : i \in 1..Len(v) }
            /\ \A j, k \in 1..Len(e.lines) :
                    j < k => FirstSeen(e.lines[j].type, v)
                                < FirstSeen(e.lines[k].type, v)
            /\ \A k \in 1..Len(e.lines) :
                    e.lines[k].count
                        = Cardinality({ i \in 1..Len(v) : v[i].type = e.lines[k].type })
            /\ e.original = call.input.original
            /\ e.revised = call.input.revised

\* two violations of one type were explained, for a prompt whose revision
\* differs from it
C22_Witness ==
    /\ Explained
    /\ Len(call.input.violations) = 2
    /\ call.input.violations[1].type = call.input.violations[2].type
    /\ Len(call.result.lines) = 1
    /\ call.result.lines[1].count = 2
    /\ call.result.revised # call.result.original

\* the Progress State of hash h has the status st
StatusIs(h, st) ==
    h \in DOMAIN generation_progress /\ generation_progress[h].status = st

\* C23: a Progress State created as queued eventually shows completed or
\* failed, and the handler that created it eventually returns, when the
\* handler keeps running and its external calls return.
C23_AcceptedRunEnds ==
    /\ \A h \in Hashes :
            StatusIs(h, "queued") ~> (StatusIs(h, "completed") \/ StatusIs(h, "failed"))
    /\ \A t \in Threads : (pc[t] = "provision") ~> (pc[t] = "idle")

\* a real run whose bounded wait ran out has written completed
C23_Witness ==
    \E t \in Threads :
        /\ hist[t].timedOut
        /\ pc[t] = "idle"
        /\ StatusIs(HashOf(t), "completed")

\* C24: every entry of the progress map with status completed has progress
\* 100 and every entry with status failed has progress 0.
C24_TerminalProgress ==
    \A h \in DOMAIN generation_progress :
        /\ generation_progress[h].status = "completed"
                => generation_progress[h].progress = 100
        /\ generation_progress[h].status = "failed"
                => generation_progress[h].progress = 0

\* the take files a readable cache record refers to
CachedArtifacts ==
    UNION { { Parse(cache[h]).takes[k].video_path :
                k \in 1..Len(Parse(cache[h]).takes) } :
            h \in { g \in DOMAIN cache : ParseOK(cache[g]) } }

\* C25: no step of a simulated-mode request changes a file that a cache
\* record refers to.
C25_SimulatedLeavesCachedArtifacts ==
    [][\A t \in Threads :
        (pc[t] # "idle" /\ ~req[t].use_real_api /\ pc'[t] # pc[t]) =>
            \A path \in CachedArtifacts \cap DOMAIN videos :
                path \in DOMAIN videos' /\ videos'[path] = videos[path]]_vars

\* the take_ids of a take list
TakeIdsOf(takes) == { takes[k].take_id : k \in 1..Len(takes) }

\* a thread holds a successful generate response
Succeeded(t) == pc[t] = "idle" /\ resp[t].code = 200

\* C26 as stated: every successful generate response, cached or not, has
\* exactly num_takes takes, with the take_ids 1..num_takes.
C26_ResponseHasRequestedTakes ==
    \A t \in Threads :
        Succeeded(t) =>
            /\ Len(resp[t].body.takes) = req[t].num_takes
            /\ TakeIdsOf(resp[t].body.takes) = 1..req[t].num_takes

\* C26 amended: a freshly generated response has exactly num_takes takes, with
\* the take_ids 1..num_takes; a response served from the cache has the takes
\* of the stored record, numbered 1..m for the m takes of the run that
\* stored it.
C26_FreshResponseHasRequestedTakes ==
    \A t \in Threads :
        Succeeded(t) =>
            IF resp[t].cached
            THEN /\ ParseOK(cache[HashOf(t)])
                 /\ resp[t].body.takes = Parse(cache[HashOf(t)]).takes
                 /\ TakeIdsOf(resp[t].body.takes) = 1..Len(resp[t].body.takes)
            ELSE /\ Len(resp[t].body.takes) = req[t].num_takes
                 /\ TakeIdsOf(resp[t].body.takes) = 1..req[t].num_takes

\* a request for one take was answered from the cache with the longest list
C26_Witness ==
    \E t \in Threads :
        /\ Succeeded(t)
        /\ resp[t].cached
        /\ req[t].num_takes = 1
        /\ Len(resp[t].body.takes) = MaxTakes

\* C27: when a scorer call and a detector call of two threads have both
\* returned, each has the result it has when it runs alone: the Score Set and
\* the violations derived from the seed of its own path.
C27_ConcurrentCallsUnperturbed ==
    (call.op = "concurrent" /\ call.done) =>
        /\ call.result["scorer"].value
                = WithOverall(score_video_mock(ExistingVideo, rng))
        /\ call.result["detector"].value
                = MockViolations(Seed(pyhash[ExistingAsset] % 100))

\* characters that end a clause
Punctuation == {".", ",", ";", ":", "!", "?"}

\* C28: wherever the revised prompt continues a prefix of the trimmed original
\* with ', <phrase>' that the original does not have at that place, the
\* prefix is empty or ends with a character that is neither punctuation nor
\* a blank.
C28_AugmentationAfterCleanEnd ==
    Revised =>
        LET original == lower(Strip(call.input.prompt))
            revised == lower(call.result)
        IN  \A j \in 1..Len(original), p \in AllPhrases :
                LET appended == <<",", " ">> \o lower(p) IN
                (/\ j + Len(appended) <= Len(revised)
                 /\ SubSeq(revised, 1, j) = SubSeq(original, 1, j)
                 /\ SubSeq(revised, j + 1, j + Len(appended)) = appended
                 /\ \/ j + Len(appended) > Len(original)
                    \/ SubSeq(original, j + 1, j + Len(appended)) # appended)
                    => original[j] \notin Punctuation \cup {" "}

\* C29: revising a revised prompt again, for the same violations and scores,
\* gives the revised prompt.
C29_ReviseIdempotent ==
    Revised =>
        revise_prompt(call.result, call.input.violations, call.input.scores)
            = call.result

\* thread t answers 400 in this step
Rejects(t) ==
    /\ pc[t] = "idle"
    /\ pc'[t] = "idle"
    /\ resp'[t].code = 400
    /\ (resp'[t] # resp[t] \/ req'[t] # req[t] \/ hist'[t] # hist[t])

\* C30: a request is taken up only with a prompt that has a character and no
\* blank at either end, so a missing, empty or blank prompt is answered 400;
\* the step that answers 400 changes no Progress State, no directory, no
\* take file and no cache file, and reads no cache file.
C30_EmptyPromptRejected ==
    [][\A t \in Threads :
        /\ (pc[t] = "idle" /\ pc'[t] = "lookup") =>
                /\ req'[t].prompt # <<>>
                /\ Head(req'[t].prompt) # " "
                /\ req'[t].prompt[Len(req'[t].prompt)] # " "
        /\ Rejects(t) =>
                /\ generation_progress' = generation_progress
                /\ cache' = cache
                /\ gendirs' = gendirs
                /\ videos' = videos
                /\ ~hist'[t].cacheRead
                /\ hist'[t].lookup = "none"]_vars

\* a request was answered 400 in a process that holds a Progress State, a
\* generation directory and a cache record from an earlier run
C30_Witness ==
    \E t \in Threads :
        /\ pc[t] = "idle"
        /\ resp[t].code = 400
        /\ generation_progress # <<>>
        /\ gendirs # {}
        /\ cache # <<>>

====
